---- MODULE Spec2Model ----
(***************************************************************************)
(* Model of the OpenID Connect middleware (middleware_openid.go):          *)
(* OpenIDMW.getProviders builds the issuer -> client -> policy map under   *)
(* the RWMutex, OpenIDMW.ProcessRequest resolves a verified token to a     *)
(* policy, derives the session identifier and creates or reuses the        *)
(* session.  Strings are sequences of byte codes (ASCII), policy           *)
(* identifiers are TLA+ strings.                                           *)
(***************************************************************************)
EXTENDS Integers, Sequences, FiniteSets, TLC

\* ---------------------------------------------------------------- bounds

\* Number of getProviders (configure) calls in one behaviour.
MaxConfigure == 2

\* ------------------------------------------------------- strings, digests

\* "[NOT GENERATED]" (lines 123, 134, 163) and "[JWT]" (line 111).
NOT_GENERATED == <<91, 78, 79, 84, 32, 71, 69, 78, 69, 82, 65, 84, 69, 68, 93>>

JWT_FAILED == <<91, 74, 87, 84, 93>>

\* ":" of the alias, line 199.
Colon == <<58>>

\* The hexadecimal digits "0123456789abcdef" that fmt.Sprintf("%x", ...) writes.
HexDigits == <<48, 49, 50, 51, 52, 53, 54, 55, 56, 57, 97, 98, 99, 100, 101, 102>>

\* md5.Sum: a fixed-width digest of the bytes.  The 16-byte digest is
\* narrowed to one byte (a polynomial digest mod 256); what the identifier
\* derivation relies on, a fixed width and no collision on the strings in
\* use, is kept and is checked, not assumed.
RECURSIVE md5Sum(_)
md5Sum(data) ==
    IF data = << >> THEN 0
    ELSE (md5Sum(SubSeq(data, 1, Len(data) - 1)) * 31 + data[Len(data)] + 7) % 256

\* fmt.Sprintf("%x", md5.Sum(data)): two hexadecimal digits per digest byte.
HexMD5(data) ==
    LET b == md5Sum(data) IN <<HexDigits[(b \div 16) + 1], HexDigits[(b % 16) + 1]>>

\* base64.StdEncoding's decode map: the 6-bit value of an alphabet
\* character, 64 for the padding character '=', 255 for any other byte.
decodeMap(c) ==
    IF c >= 65 /\ c <= 90 THEN c - 65
    ELSE IF c >= 97 /\ c <= 122 THEN c - 71
    ELSE IF c >= 48 /\ c <= 57 THEN c + 4
    ELSE IF c = 43 THEN 62
    ELSE IF c = 47 THEN 63
    ELSE IF c = 61 THEN 64
    ELSE 255

\* base64.StdEncoding.DecodeString(s): [bytes, err].  The input is decoded
\* one quantum of four characters at a time; on corrupt input the bytes of
\* the quanta decoded so far are returned together with the error, and
\* bytes of a padded quantum followed by trailing garbage are returned too.
RECURSIVE DecodeString(_)
DecodeString(s) ==
    IF s = << >> THEN [bytes |-> << >>, err |-> FALSE]
    ELSE IF Len(s) < 4 THEN [bytes |-> << >>, err |-> TRUE]
    ELSE
      LET a == decodeMap(s[1])
          b == decodeMap(s[2])
          c == decodeMap(s[3])
          d == decodeMap(s[4])
          rest == SubSeq(s, 5, Len(s))
          b1 == (a * 4 + (b \div 16)) % 256
          b2 == ((b % 16) * 16 + (c \div 4)) % 256
          b3 == ((c % 4) * 64 + d) % 256
      IN  IF a >= 64 \/ b >= 64 THEN [bytes |-> << >>, err |-> TRUE]
          ELSE IF c = 64 THEN
              IF d = 64 THEN [bytes |-> <<b1>>, err |-> rest # << >>]
              ELSE [bytes |-> << >>, err |-> TRUE]
          ELSE IF c = 255 THEN [bytes |-> << >>, err |-> TRUE]
          ELSE IF d = 64 THEN [bytes |-> <<b1, b2>>, err |-> rest # << >>]
          ELSE IF d = 255 THEN [bytes |-> << >>, err |-> TRUE]
          ELSE LET r == DecodeString(rest)
               IN  [bytes |-> <<b1, b2, b3>> \o r.bytes, err |-> r.err]

\* ------------------------------------------------------------ the inputs

\* Issuers, decoded client identifiers, subjects and the organisation.
IssuerOne == <<105>>

IssuerTwo == <<106>>

ClientA == <<65>>

ClientB == <<66>>

ClientC == <<67>>

ClientD == <<68>>

SubjectU == <<117>>

SubjectV == <<118>>

\* A claim value of jwt.MapClaims (interface{}): absent, a string, an array
\* or a value of another type (a number).
NoClaim == [t |-> "none", v |-> << >>]

NumClaim == [t |-> "num", v |-> << >>]

NilValue == [t |-> "nil", v |-> << >>]

Str(b) == [t |-> "str", v |-> b]

Arr(s) == [t |-> "arr", v |-> s]

\* What openid.AuthenticateOIDWithUser hands back: halt, or user.ID and the
\* token's claims; ctxData tells whether the request already carries a
\* ContextData object.
Tok(sub, iss, aud, ctxData) ==
    [halt |-> FALSE, sub |-> sub, iss |-> iss, aud |-> aud, ctxData |-> ctxData]

Inputs ==
    { [halt |-> TRUE, sub |-> << >>, iss |-> NoClaim, aud |-> NoClaim, ctxData |-> FALSE],
      Tok(SubjectU, NoClaim, NoClaim, FALSE),
      Tok(SubjectU, NoClaim, Str(ClientA), FALSE),
      Tok(SubjectU, Str(IssuerOne), Str(ClientA), TRUE),
      Tok(SubjectU, Str(IssuerOne), Str(ClientB), FALSE),
      Tok(SubjectV, Str(IssuerOne), Str(ClientA), FALSE),
      Tok(SubjectU, Str(IssuerOne), Arr(<<Str(ClientD), Str(ClientC), Str(ClientB)>>), TRUE),
      Tok(SubjectU, Str(IssuerOne), Arr(<<NumClaim, Str(ClientA)>>), FALSE),
      Tok(SubjectU, Str(IssuerOne), NoClaim, FALSE),
      Tok(SubjectU, Str(IssuerTwo), Str(ClientA), FALSE) }

\* Spec.OpenIDOptions.Providers: a list of providers, each an issuer and a
\* map from base64 client identifier to policy identifier.
\*   "QQ==" -> "A", "Qg==" -> "B", "Qw==" -> "C";
\*   "QQ==!" and "Q!==" are not valid base64.
\* The first list is valid; its first provider has no client, which the
\* validation library refuses.
ProvidersOne ==
    << [Issuer |-> IssuerTwo, ClientIDs |-> << >>],
       [Issuer |-> IssuerOne,
        ClientIDs |-> (<<81, 81, 61, 61>> :> "pol-A") @@ (<<81, 103, 61, 61>> :> "pol-B")] >>

ProvidersTwo ==
    << [Issuer |-> IssuerOne,
        ClientIDs |-> (<<81, 81, 61, 61, 33>> :> "pol-X") @@ (<<81, 119, 61, 61>> :> "")],
       [Issuer |-> IssuerTwo,
        ClientIDs |-> (<<81, 33, 61, 61>> :> "pol-A")] >>

ProviderLists == {ProvidersOne, ProvidersTwo}

\* The API definition's fields the middleware reads: Spec.OrgID,
\* OpenIDOptions.SegregateByClient, BaseIdentityProvidedBy, EnableContextVars.
ApiSpecs ==
    { [OrgID |-> <<111>>, SegregateByClient |-> FALSE,
       BaseIdentityProvidedBy |-> "AuthToken", EnableContextVars |-> TRUE],
      [OrgID |-> <<111>>, SegregateByClient |-> TRUE,
       BaseIdentityProvidedBy |-> "OIDCUser", EnableContextVars |-> TRUE],
      [OrgID |-> <<111>>, SegregateByClient |-> FALSE,
       BaseIdentityProvidedBy |-> "UnsetAuth", EnableContextVars |-> TRUE] }

\* The policies the policy engine can expand.
KnownPolicies == {"pol-A", "pol-B"}

\* The request-handling execution contexts, named in order of arrival.
Reqs == {"r1", "r2"}

\* The requests that arrive before r.
Earlier(r) == IF r = "r2" THEN {"r1"} ELSE {}

\* ------------------------------------------------------------- the state

VARIABLES
    apiSpec,    \* k.Spec: the API definition's fields
    registry,   \* k.provider_client_policymap: issuer -> (client -> policy)
    lock,       \* k.lock: the writer holding it ("none": free) and its readers
    cfg,        \* the getProviders call in progress: its position and locals
    library,    \* per issuer, the latest registration with the validation
                \* library: whether it succeeded and the clients passed
    sessions,   \* the session manager's store: session identifier -> session
    req         \* per request: ProcessRequest's position, locals and effects

vars == <<apiSpec, registry, lock, cfg, library, sessions, req>>

\* The holder name of the configuration thread in k.lock.
CfgThread == "cfg"

\* SessionState{} (line 182).
EmptySession ==
    [policy |-> "", org |-> << >>,
     MetaData |-> [TykJWTSessionID |-> << >>, ClientID |-> << >>],
     Alias |-> << >>]

\* m with key k set to v (a Go map assignment m[k] = v).
MapPut(m, k, v) == [x \in (DOMAIN m) \cup {k} |-> IF x = k THEN v ELSE m[x]]

\* A request before ProcessRequest is called.
InitReq ==
    [pc |-> "idle", after |-> {}, halt |-> FALSE,
     sub |-> << >>, iss |-> NoClaim, aud |-> NoClaim,
     foundIssuer |-> FALSE, stable |-> TRUE, audIdx |-> 0,
     policyID |-> "", clientID |-> << >>, sessionID |-> << >>,
     exists |-> FALSE, sessionState |-> EmptySession,
     code |-> 0, err |-> "",
     authFailed |-> << >>, keyFailure |-> 0,
     nExpand |-> 0, nUpsert |-> 0, upsertOK |-> FALSE,
     ctx |-> [SessionData |-> EmptySession, hasSessionData |-> FALSE,
              AuthHeaderValue |-> NilValue,
              ContextData |-> << >>, hasContextData |-> FALSE]]

InitCfg ==
    [pc |-> "idle", calls |-> 0, list |-> << >>, p |-> 0, todo |-> {},
     cur |-> << >>, arr |-> << >>, providers |-> << >>]

\* OpenIDMW.New: an empty map and an unlocked mutex; no session stored yet.
Init ==
    /\ apiSpec \in ApiSpecs
    /\ registry = << >>
    /\ lock = [w |-> "none", r |-> {}]
    /\ cfg = InitCfg
    /\ library = << >>
    /\ sessions = << >>
    /\ req = [r \in Reqs |-> InitReq]

\* ------------------------------------------------- getProviders (50-89)

\* Mutant of PutPolicy: the issuer's inner map is created anew at every write.
PutPolicy_NewInnerMap(m, iss, clientID, policyID) ==
    MapPut(m, iss, clientID :> policyID)

\* Lines 64-68: the assignment into the two-level map.
PutPolicy(m, iss, clientID, policyID) ==
    IF iss \notin DOMAIN m
    THEN MapPut(m, iss, clientID :> policyID)
    ELSE MapPut(m, iss, MapPut(m[iss], clientID, policyID))

\* Lines 51-56 for the provider at index p of the list (or the return of
\* line 88 once the list is exhausted).
EnterProvider(c, p) ==
    IF p > Len(c.list)
    THEN [c EXCEPT !.pc = "idle", !.calls = @ + 1, !.list = << >>, !.p = 0,
                   !.todo = {}, !.arr = << >>, !.cur = << >>, !.providers = << >>]
    ELSE [c EXCEPT !.pc = "clients", !.p = p,
                   !.todo = DOMAIN c.list[p].ClientIDs, !.arr = << >>, !.cur = << >>]

\* getProviders is called with the provider list of the current API
\* definition (a reload may have changed it).
CfgStart ==
    /\ cfg.pc = "idle"
    /\ cfg.calls < MaxConfigure
    /\ \E l \in ProviderLists :
         cfg' = EnterProvider([cfg EXCEPT !.list = l, !.providers = << >>], 1)
    /\ UNCHANGED <<apiSpec, registry, lock, library, sessions, req>>

\* Lines 59-63: the range over provider.ClientIDs yields the next pair (in
\* an order Go does not fix) and k.lock.Lock() is acquired.
CfgLock ==
    /\ cfg.pc = "clients"
    /\ lock.w = "none" /\ lock.r = {}
    /\ \E enc \in cfg.todo :
         cfg' = [cfg EXCEPT !.pc = "write", !.cur = enc]
    /\ lock' = [lock EXCEPT !.w = CfgThread]
    /\ UNCHANGED <<apiSpec, registry, library, sessions, req>>

\* A request between two reads of the issuer's client map (history only:
\* its stable flag records whether the map changed during its scan).
MidScan(q, iss) == q.pc = "rlockAud" /\ q.audIdx > 1 /\ q.iss.v = iss

\* Lines 60-61, 64-73: the decoded bytes (the decoding error is dropped)
\* become the key, the map is written, the lock released and the client
\* appended to providerClientArray.
CfgWrite ==
    /\ cfg.pc = "write"
    /\ LET iss == cfg.list[cfg.p].Issuer
           clientID == DecodeString(cfg.cur).bytes
           policyID == cfg.list[cfg.p].ClientIDs[cfg.cur]
       IN  /\ registry' = PutPolicy(registry, iss, clientID, policyID)
           /\ cfg' = [cfg EXCEPT !.pc = "clients", !.todo = @ \ {cfg.cur},
                                 !.arr = Append(@, clientID)]
           /\ req' = [r \in Reqs |->
                        IF MidScan(req[r], iss) /\ registry' # registry
                        THEN [req[r] EXCEPT !.stable = FALSE] ELSE req[r]]
    /\ lock' = [lock EXCEPT !.w = "none"]
    /\ UNCHANGED <<apiSpec, library, sessions>>

\* openid.NewProvider(iss, clientIDs) (line 76): the validation library
\* refuses an empty issuer, an empty client list and an empty client
\* identifier.
NewProvider(iss, clientIDs) ==
    [err |-> \/ iss = << >>
             \/ clientIDs = << >>
             \/ \E i \in 1..Len(clientIDs) : clientIDs[i] = << >>]

\* Mutant of CfgRegister: getProviders returns at the first provider the
\* validation library refuses.
CfgRegister_AbortsOnError ==
    /\ cfg.pc = "clients"
    /\ cfg.todo = {}
    /\ LET iss == cfg.list[cfg.p].Issuer
           p == NewProvider(iss, cfg.arr)
       IN  /\ library' = MapPut(library, iss,
                                [ok |-> ~p.err,
                                 clients |-> {cfg.arr[i] : i \in 1..Len(cfg.arr)}])
           /\ cfg' = EnterProvider(
                       [cfg EXCEPT !.providers = IF p.err THEN @ ELSE Append(@, iss)],
                       IF p.err THEN Len(cfg.list) + 1 ELSE cfg.p + 1)
    /\ UNCHANGED <<apiSpec, registry, lock, sessions, req>>

\* Lines 76-86: the provider is registered with the clients collected;
\* only a successful provider is appended to the returned list.
CfgRegister ==
    /\ cfg.pc = "clients"
    /\ cfg.todo = {}
    /\ LET iss == cfg.list[cfg.p].Issuer
           p == NewProvider(iss, cfg.arr)
       IN  /\ library' = MapPut(library, iss,
                                [ok |-> ~p.err,
                                 clients |-> {cfg.arr[i] : i \in 1..Len(cfg.arr)}])
           /\ cfg' = EnterProvider(
                       [cfg EXCEPT !.providers = IF p.err THEN @ ELSE Append(@, iss)],
                       cfg.p + 1)
    /\ UNCHANGED <<apiSpec, registry, lock, sessions, req>>

\* ---------------------------------------------- the collaborators

\* Mutant of reportLoginFailure: the health report is made, the AuthFailed
\* event is not fired.
reportLoginFailure_NoEvent(q, tykId) == [q EXCEPT !.keyFailure = @ + 1]

\* reportLoginFailure (218-229): one AuthFailed event carrying tykId and
\* one KeyFailure health report.
reportLoginFailure(q, tykId) ==
    [q EXCEPT !.authFailed = Append(@, tykId), !.keyFailure = @ + 1]

\* A return of ProcessRequest: (err, code).
Return(q, err, code) == [q EXCEPT !.pc = "done", !.err = err, !.code = code]

\* Mutant of NotAuthorised: the failure is reported but 200 is returned.
NotAuthorised_Returns200(q) ==
    [reportLoginFailure(q, NOT_GENERATED) EXCEPT !.pc = "done", !.err = "", !.code = 200]

\* Mutant of NotAuthorised: the failure is reported twice.
NotAuthorised_ReportsTwice(q) ==
    Return(reportLoginFailure(reportLoginFailure(q, NOT_GENERATED), NOT_GENERATED),
           "Key not authorised", 403)

\* The three failure returns that report the placeholder (119-125,
\* 130-136, 159-165).
NotAuthorised(q) == Return(reportLoginFailure(q, NOT_GENERATED), "Key not authorised", 403)

\* generateSessionFromPolicy(policyID, orgID, true): the policy's template,
\* or an error for a policy the engine does not know.
generateSessionFromPolicy(policyID, orgID) ==
    IF policyID \in KnownPolicies
    THEN [err |-> FALSE, session |-> [EmptySession EXCEPT !.policy = policyID, !.org = orgID]]
    ELSE [err |-> TRUE, session |-> EmptySession]

\* CheckSessionAndIdentityForValidKey(sessionID): the stored session, if any.
CheckSessionAndIdentityForValidKey(store, sessionID) ==
    IF sessionID \in DOMAIN store
    THEN [exists |-> TRUE, session |-> store[sessionID]]
    ELSE [exists |-> FALSE, session |-> EmptySession]

\* SessionManager.UpdateSession(sessionID, session, lifetime): the session
\* is stored under the identifier, unless the store fails to persist it.
UpdateSession(store, sessionID, session, stored) ==
    IF stored THEN MapPut(store, sessionID, session) ELSE store

\* Mutant of SessionID: the client is part of the identifier without
\* segregation too.
SessionID_AlwaysClient(spec, sub, clientID) ==
    spec.OrgID \o HexMD5(clientID) \o HexMD5(sub)

\* Mutant of SessionID: the client is left out under segregation too.
SessionID_NoClient(spec, sub, clientID) == spec.OrgID \o HexMD5(sub)

\* Lines 167-174: the session identifier.
SessionID(spec, sub, clientID) ==
    IF spec.SegregateByClient
    THEN spec.OrgID \o HexMD5(clientID) \o HexMD5(sub)
    ELSE spec.OrgID \o HexMD5(sub)

\* The claims of the verified token, as token.Claims.(jwt.MapClaims) holds them.
Claims(q) ==
    LET all == ("sub" :> Str(q.sub)) @@ ("iss" :> q.iss) @@ ("aud" :> q.aud)
    IN  [n \in {m \in DOMAIN all : all[m].t # "none"} |-> all[n]]

\* claimPrefix + claimName (line 241).
ClaimKey(n) ==
    CASE n = "sub" -> "jwt_claims_sub"
      [] n = "iss" -> "jwt_claims_iss"
      [] n = "aud" -> "jwt_claims_aud"

\* setContextVars (231-253).
setContextVars(spec, q) ==
    IF spec.EnableContextVars /\ q.ctx.hasContextData
    THEN LET claims == Claims(q)
             keys == {ClaimKey(n) : n \in DOMAIN claims} \cup {"token"}
             old == q.ctx.ContextData
             new == [k \in (DOMAIN old) \cup keys |->
                       IF k = "token" THEN q.ctx.AuthHeaderValue
                       ELSE IF \E n \in DOMAIN claims : ClaimKey(n) = k
                            THEN claims[CHOOSE n \in DOMAIN claims : ClaimKey(n) = k]
                            ELSE old[k]]
         IN  [q EXCEPT !.ctx.ContextData = new]
    ELSE q

\* Mutant of Publish: the session is set on the request context whatever
\* the precedence setting.
Publish_Always(spec, q) ==
    Return(setContextVars(spec, [q EXCEPT !.ctx.SessionData = q.sessionState,
                                          !.ctx.hasSessionData = TRUE,
                                          !.ctx.AuthHeaderValue = Str(q.sessionID)]),
           "", 200)

\* Lines 207-215: the session is set on the request context when this
\* middleware provides the base identity, the claims are flattened, and
\* ProcessRequest returns (nil, 200).
Publish(spec, q) ==
    LET set == IF spec.BaseIdentityProvidedBy \in {"OIDCUser", "UnsetAuth"}
               THEN [q EXCEPT !.ctx.SessionData = q.sessionState,
                              !.ctx.hasSessionData = TRUE,
                              !.ctx.AuthHeaderValue = Str(q.sessionID)]
               ELSE q
    IN  Return(setContextVars(spec, set), "", 200)

\* ----------------------------------------------- ProcessRequest (104-216)

\* Lines 159-176, once the audience switch has set policyID and clientID:
\* an empty policyID is refused, otherwise the session identifier is derived.
Resolved(spec, q, policyID, clientID) ==
    LET q1 == [q EXCEPT !.policyID = policyID, !.clientID = clientID] IN
    IF policyID = ""
    THEN NotAuthorised(q1)
    ELSE [q1 EXCEPT !.pc = "checkSession",
                    !.sessionID = SessionID(spec, q.sub, clientID)]

\* Lines 104-125: the token is authenticated; a halt, or a token with
\* neither iss nor aud, is refused.
Authenticate(r) ==
    /\ req[r].pc = "idle"
    /\ \A e \in Earlier(r) : req[e].pc # "idle"
    /\ \E in \in Inputs :
         LET q == [req[r] EXCEPT
                     !.after = {e \in Reqs : req[e].pc = "done"},
                     !.halt = in.halt,
                     !.sub = in.sub, !.iss = in.iss, !.aud = in.aud,
                     !.ctx.hasContextData = in.ctxData,
                     !.ctx.ContextData =
                         IF in.ctxData THEN ("existing" :> Str(<<120>>)) ELSE << >>]
             found == in.iss.t # "none"
             cfound == in.aud.t # "none"
         IN  req' = [req EXCEPT ![r] =
                 IF in.halt
                 THEN Return(reportLoginFailure(q, JWT_FAILED), "Key not authorised", 403)
                 ELSE IF ~found /\ ~cfound
                 THEN NotAuthorised(q)
                 ELSE [q EXCEPT !.pc = "lockIssuer"]]
    /\ UNCHANGED <<apiSpec, registry, lock, cfg, library, sessions>>

\* Line 127: k.lock.Lock().
LockIssuer(r) ==
    /\ req[r].pc = "lockIssuer"
    /\ lock.w = "none" /\ lock.r = {}
    /\ lock' = [lock EXCEPT !.w = r]
    /\ req' = [req EXCEPT ![r].pc = "readIssuer"]
    /\ UNCHANGED <<apiSpec, registry, cfg, library, sessions>>

\* Mutant of ReadIssuer: the lock is released only when the issuer is found.
ReadIssuer_UnlocksWhenFound(r) ==
    /\ req[r].pc = "readIssuer"
    /\ LET q == req[r] IN
       IF q.iss.t # "str"
       THEN /\ req' = [req EXCEPT ![r].pc = "panicked"]
            /\ UNCHANGED lock
       ELSE LET foundIssuer == q.iss.v \in DOMAIN registry
                q1 == [q EXCEPT !.foundIssuer = foundIssuer]
            IN  /\ lock' = IF foundIssuer THEN [lock EXCEPT !.w = "none"] ELSE lock
                /\ req' = [req EXCEPT ![r] =
                     IF ~foundIssuer THEN NotAuthorised(q1)
                     ELSE IF q.aud.t = "str"
                          THEN [q1 EXCEPT !.pc = "rlockAud"]
                     ELSE IF q.aud.t = "arr" /\ Len(q.aud.v) > 0
                          THEN [q1 EXCEPT !.pc = "rlockAud", !.audIdx = 1]
                     ELSE Resolved(apiSpec, q1, "", << >>)]
    /\ UNCHANGED <<apiSpec, registry, cfg, library, sessions>>

\* Lines 128-157 up to the first read of the client map: iss.(string)
\* panics for an absent or non-string iss, with the lock still held;
\* otherwise the issuer is looked up, the lock released, an unknown issuer
\* refused, and the audience switch entered.
ReadIssuer(r) ==
    /\ req[r].pc = "readIssuer"
    /\ LET q == req[r] IN
       IF q.iss.t # "str"
       THEN /\ req' = [req EXCEPT ![r].pc = "panicked"]
            /\ UNCHANGED lock
       ELSE /\ lock' = [lock EXCEPT !.w = "none"]
            /\ LET foundIssuer == q.iss.v \in DOMAIN registry
                   q1 == [q EXCEPT !.foundIssuer = foundIssuer]
               IN  req' = [req EXCEPT ![r] =
                     IF ~foundIssuer THEN NotAuthorised(q1)
                     ELSE IF q.aud.t = "str"
                          THEN [q1 EXCEPT !.pc = "rlockAud"]
                     ELSE IF q.aud.t = "arr" /\ Len(q.aud.v) > 0
                          THEN [q1 EXCEPT !.pc = "rlockAud", !.audIdx = 1]
                     ELSE Resolved(apiSpec, q1, "", << >>)]
    /\ UNCHANGED <<apiSpec, registry, cfg, library, sessions>>

\* Mutant of RLockAud: the read lock is taken without waiting for a writer.
RLockAud_NoWait(r) ==
    /\ req[r].pc = "rlockAud"
    /\ lock' = [lock EXCEPT !.r = @ \cup {r}]
    /\ req' = [req EXCEPT ![r].pc = "readAud"]
    /\ UNCHANGED <<apiSpec, registry, cfg, library, sessions>>

\* Lines 142, 148: k.lock.RLock().
RLockAud(r) ==
    /\ req[r].pc = "rlockAud"
    /\ lock.w = "none"
    /\ lock' = [lock EXCEPT !.r = @ \cup {r}]
    /\ req' = [req EXCEPT ![r].pc = "readAud"]
    /\ UNCHANGED <<apiSpec, registry, cfg, library, sessions>>

\* Mutant of foundPolicy: an element mapped to an empty policy is skipped.
foundPolicy_NonEmpty(clientSet, audVal) ==
    audVal \in DOMAIN clientSet /\ clientSet[audVal] # ""

\* Lines 149-151: whether the scan of an array aud stops at this element.
foundPolicy(clientSet, audVal) == audVal \in DOMAIN clientSet

\* Lines 143-145 (a string aud) and 149-155 (one element of an array aud):
\* clientSet, the issuer's inner map (a reference: it is read as it is
\* now), is read and the read lock released.
\* audVal.(string) panics for a non-string element, the read lock held.
ReadAud(r) ==
    /\ req[r].pc = "readAud"
    /\ LET q == req[r]
           clientSet == registry[q.iss.v]
       IN  IF q.aud.t = "str"
           THEN /\ lock' = [lock EXCEPT !.r = @ \ {r}]
                /\ req' = [req EXCEPT ![r] =
                     Resolved(apiSpec, q,
                              IF q.aud.v \in DOMAIN clientSet THEN clientSet[q.aud.v] ELSE "",
                              q.aud.v)]
           ELSE LET audVal == q.aud.v[q.audIdx] IN
                IF audVal.t # "str"
                THEN /\ req' = [req EXCEPT ![r].pc = "panicked"]
                     /\ UNCHANGED lock
                ELSE /\ lock' = [lock EXCEPT !.r = @ \ {r}]
                     /\ req' = [req EXCEPT ![r] =
                          IF foundPolicy(clientSet, audVal.v)
                          THEN Resolved(apiSpec, q, clientSet[audVal.v], audVal.v)
                          ELSE IF q.audIdx < Len(q.aud.v)
                          THEN [q EXCEPT !.pc = "rlockAud", !.audIdx = @ + 1]
                          ELSE Resolved(apiSpec, q, "", << >>)]
    /\ UNCHANGED <<apiSpec, registry, cfg, library, sessions>>

\* Mutant of Generate: a failed expansion is reported under the
\* placeholder instead of the session identifier.
Generate_ReportsPlaceholder(spec, q0) ==
    LET q == [q0 EXCEPT !.nExpand = @ + 1, !.sessionState = EmptySession]
        new == generateSessionFromPolicy(q.policyID, spec.OrgID)
    IN  IF new.err
        THEN Return(reportLoginFailure(q, NOT_GENERATED),
                    "Key not authorized: no matching policy", 403)
        ELSE [q EXCEPT !.pc = "update",
                       !.sessionState =
                           [new.session EXCEPT
                              !.MetaData = [TykJWTSessionID |-> q.sessionID,
                                            ClientID |-> q.clientID],
                              !.Alias = q.clientID \o Colon \o q.sub]]

\* Lines 182-199: the policy engine expands policyID; on an error the
\* failure is reported under the session identifier, otherwise the
\* template gets its metadata and alias and is about to be stored.
Generate(spec, q0) ==
    LET q == [q0 EXCEPT !.nExpand = @ + 1, !.sessionState = EmptySession]
        new == generateSessionFromPolicy(q.policyID, spec.OrgID)
    IN  IF new.err
        THEN Return(reportLoginFailure(q, q.sessionID),
                    "Key not authorized: no matching policy", 403)
        ELSE [q EXCEPT !.pc = "update",
                       !.sessionState =
                           [new.session EXCEPT
                              !.MetaData = [TykJWTSessionID |-> q.sessionID,
                                            ClientID |-> q.clientID],
                              !.Alias = q.clientID \o Colon \o q.sub]]

\* Mutant of MustCreate: the session is created on every request.
MustCreate_Always(exists) == TRUE

\* Line 179: a session is created only when none exists.
MustCreate(exists) == ~exists

\* Lines 178-199 (and 207-215 when the session exists): the session
\* manager is asked for the session; a stored session is used as it is
\* and published, a missing one is generated from the policy.
CheckSession(r) ==
    /\ req[r].pc = "checkSession"
    /\ LET q == req[r]
           got == CheckSessionAndIdentityForValidKey(sessions, q.sessionID)
           q1 == [q EXCEPT !.exists = got.exists, !.sessionState = got.session]
       IN  req' = [req EXCEPT ![r] =
                     IF MustCreate(got.exists) THEN Generate(apiSpec, q1)
                     ELSE Publish(apiSpec, q1)]
    /\ UNCHANGED <<apiSpec, registry, lock, cfg, library, sessions>>

\* Lines 202-215: SessionManager.UpdateSession stores the session or fails
\* to; nothing it reports is read, and the request goes on to publish
\* and return (nil, 200).
Update(r) ==
    /\ req[r].pc = "update"
    /\ \E stored \in BOOLEAN :
         /\ sessions' = UpdateSession(sessions, req[r].sessionID, req[r].sessionState, stored)
         /\ req' = [req EXCEPT ![r] =
                      Publish(apiSpec, [req[r] EXCEPT !.nUpsert = @ + 1,
                                                     !.upsertOK = stored])]
    /\ UNCHANGED <<apiSpec, registry, lock, cfg, library>>

Request(r) ==
    \/ Authenticate(r)
    \/ LockIssuer(r)
    \/ ReadIssuer(r)
    \/ RLockAud(r)
    \/ ReadAud(r)
    \/ CheckSession(r)
    \/ Update(r)

Configure == CfgStart \/ CfgLock \/ CfgWrite \/ CfgRegister

Next == Configure \/ (\E r \in Reqs : Request(r))

Spec == Init /\ [][Next]_vars

\* ------------------------------------------------------------ the claims

\* The requests that have derived a session identifier (line 169-176).
Derived == {r \in Reqs : req[r].sessionID # << >>}

\* C1: under any interleaving of requests that derive the same session
\* identifier, UpdateSession is invoked at most once for that identifier
\* and the policy engine is expanded at most once for it.
C1_UpsertAtMostOncePerIdentifier ==
    \A a, b \in Derived :
       (a # b /\ req[a].sessionID = req[b].sessionID)
          => /\ req[a].nUpsert + req[b].nUpsert <= 1
             /\ req[a].nExpand + req[b].nExpand <= 1

\* The first request stored its session and returned before the second
\* request arrived, and the second has derived the same identifier and
\* consulted the session manager.
OneAfterTheOther(a, b) ==
    /\ a \in req[b].after
    /\ req[a].nUpsert = 1 /\ req[a].upsertOK /\ req[a].code = 200
    /\ b \in Derived
    /\ req[b].sessionID = req[a].sessionID
    /\ req[b].pc # "checkSession"

\* C2: of two requests executed one after the other that derive the same
\* session identifier, the second makes no policy expansion and no
\* upsert, returns 200, and its session equals the one the first stored.
C2_SecondRequestReuses ==
    \A a, b \in Reqs :
       OneAfterTheOther(a, b)
          => /\ req[b].pc = "done" /\ req[b].code = 200 /\ req[b].err = ""
             /\ req[b].exists
             /\ req[b].nExpand = 0 /\ req[b].nUpsert = 0
             /\ req[b].sessionState = req[a].sessionState
             /\ (req[b].ctx.hasSessionData
                   => req[b].ctx.SessionData = req[a].sessionState)

C2_Witness ==
    \E a, b \in Reqs :
       /\ OneAfterTheOther(a, b)
       /\ req[b].pc = "done"
       /\ req[b].ctx.hasSessionData
       /\ req[a].sessionState.policy = "pol-A"

\* The least element of a non-empty set of indices.
Least(S) == CHOOSE i \in S : \A j \in S : i <= j

\* The reference resolution of an audience claim against a client map: a
\* string names the client and takes its mapped policy; an array takes the
\* first element, in array order, that is a key of the map.
RefResolve(aud, m) ==
    IF aud.t = "str"
    THEN [clientID |-> aud.v,
          policyID |-> IF aud.v \in DOMAIN m THEN m[aud.v] ELSE ""]
    ELSE IF aud.t = "arr"
    THEN LET hits == {i \in 1..Len(aud.v) : aud.v[i].t = "str" /\ aud.v[i].v \in DOMAIN m}
         IN  IF hits = {} THEN [clientID |-> << >>, policyID |-> ""]
             ELSE [clientID |-> aud.v[Least(hits)].v,
                   policyID |-> m[aud.v[Least(hits)].v]]
    ELSE [clientID |-> << >>, policyID |-> ""]

\* Every element of an array audience is a string, so that no element
\* makes the scan panic.
AllStrings(aud) == aud.t = "arr" => \A i \in 1..Len(aud.v) : aud.v[i].t = "str"

\* The step on which request r leaves the audience resolution of lines
\* 138-165 without a panic, the issuer's client map having been the same
\* at every read.
ResolutionEnds(r) ==
    /\ req[r].pc \in {"readIssuer", "readAud"}
    /\ req'[r].pc \in {"checkSession", "done"}
    /\ req'[r].foundIssuer
    /\ req'[r].stable
    /\ AllStrings(req[r].aud)

\* C3: audience resolution equals the reference operator on the issuer's
\* client map (string: that client and its policy; array: the first
\* element that is a key, later ones not consulted), and a request for
\* which no non-empty policy resolves is refused with 403.
C3_AudienceResolution ==
    [][\A r \in Reqs :
          ResolutionEnds(r) =>
             LET ref == RefResolve(req[r].aud, registry[req[r].iss.v]) IN
             /\ req'[r].policyID = ref.policyID
             /\ req'[r].clientID = ref.clientID
             /\ (ref.policyID = "")
                   <=> (req'[r].pc = "done" /\ req'[r].code = 403
                        /\ req'[r].err = "Key not authorised")
             /\ (ref.policyID # "") <=> (req'[r].pc = "checkSession")]_vars

\* An array audience was resolved to its second element while a later
\* element was a key of the map as well.
C3_Witness ==
    \E r \in Reqs :
       /\ req[r].aud.t = "arr" /\ req[r].audIdx = 2 /\ req[r].stable
       /\ req[r].pc = "done" /\ req[r].clientID = req[r].aud.v[2].v
       /\ req[r].aud.v[3].v \in DOMAIN registry[req[r].iss.v]
       /\ registry[req[r].iss.v][req[r].aud.v[3].v] # ""

\* C4: the session identifier is orgID followed by the digest of the
\* subject and, under segregation, preceded by the digest of the effective
\* client: without segregation it is the same for the same subject
\* whatever the client, with segregation it is the same for the same
\* (subject, client) and differs between two clients of one subject.
C4_SessionIdentifier ==
    \A a, b \in Derived :
       LET qa == req[a]
           qb == req[b]
       IN  /\ qa.sessionID =
                 apiSpec.OrgID
                    \o (IF apiSpec.SegregateByClient THEN HexMD5(qa.clientID) ELSE << >>)
                    \o HexMD5(qa.sub)
           /\ (~apiSpec.SegregateByClient /\ qa.sub = qb.sub)
                 => qa.sessionID = qb.sessionID
           /\ (apiSpec.SegregateByClient /\ qa.sub = qb.sub /\ qa.clientID = qb.clientID)
                 => qa.sessionID = qb.sessionID
           /\ (apiSpec.SegregateByClient /\ qa.sub = qb.sub /\ qa.clientID # qb.clientID)
                 => qa.sessionID # qb.sessionID

\* Under segregation one subject has derived identifiers through two clients.
C4_Witness ==
    \E a, b \in Derived :
       /\ apiSpec.SegregateByClient
       /\ req[a].sub = req[b].sub
       /\ req[a].clientID # req[b].clientID

\* C5: every invocation on a verified token completes with (no error, 200)
\* or (error, 403), whatever the shape of its claims; a token with aud but
\* no iss is refused with 403.
C5_EveryInvocationCompletes ==
    \A r \in Reqs :
       /\ req[r].pc # "panicked"
       /\ req[r].pc = "done"
             => \/ (req[r].code = 200 /\ req[r].err = "")
                \/ (req[r].code = 403 /\ req[r].err # "")

\* C6: after any sequence of getProviders calls, every issuer that is a
\* key of the map is one whose registration with the validation library
\* succeeded.
C6_RegistryOnlyRegistered ==
    cfg.pc = "idle"
       => \A iss \in DOMAIN registry : iss \in DOMAIN library /\ library[iss].ok

\* C7: a client identifier whose base64 decoding fails is excluded: the
\* step that handles it inserts nothing into the map and adds nothing to
\* the client list passed to the registration.
C7_UndecodableClientExcluded ==
    [][(cfg.pc = "write" /\ cfg'.pc = "clients" /\ DecodeString(cfg.cur).err)
          => (registry' = registry /\ cfg'.arr = cfg.arr)]_vars

\* C8: a request whose session upsert failed does not return (no error, 200).
C8_PersistFailureSurfaced ==
    \A r \in Reqs :
       (req[r].pc = "done" /\ req[r].nUpsert > 0 /\ ~req[r].upsertOK)
          => ~(req[r].code = 200 /\ req[r].err = "")

\* C9: the step on which a request finds that its issuer is not a key of
\* the map returns 403: no session identifier was derived, the policy
\* engine and UpdateSession were not called, nothing was published and
\* the session store is unchanged.
C9_UnknownIssuerRefused ==
    [][\A r \in Reqs :
          (/\ req[r].pc = "readIssuer" /\ req'[r].pc # "readIssuer"
           /\ req[r].iss.t = "str"
           /\ req[r].iss.v \notin DOMAIN registry)
             => /\ req'[r].pc = "done" /\ req'[r].code = 403 /\ req'[r].err # ""
                /\ req'[r].nExpand = 0 /\ req'[r].nUpsert = 0
                /\ req'[r].sessionID = << >>
                /\ ~req'[r].ctx.hasSessionData
                /\ sessions' = sessions]_vars

\* A request was refused for an unknown issuer while another issuer was
\* registered.
C9_Witness ==
    \E r \in Reqs :
       /\ req[r].pc = "done" /\ req[r].iss.t = "str" /\ ~req[r].foundIssuer
       /\ req[r].iss.v \notin DOMAIN registry
       /\ registry # << >>

\* A request whose verified token has neither iss nor aud.
NoIssNoAud(r) ==
    /\ req[r].pc # "idle" /\ ~req[r].halt
    /\ req[r].iss.t = "none" /\ req[r].aud.t = "none"

\* C10: a request whose token has neither iss nor aud returns 403 with
\* exactly one failure event, carrying "[NOT GENERATED]", and creates no
\* session.
C10_NoIssNoAudRefused ==
    \A r \in Reqs :
       NoIssNoAud(r)
          => /\ req[r].pc = "done" /\ req[r].code = 403 /\ req[r].err # ""
             /\ req[r].authFailed = <<NOT_GENERATED>>
             /\ req[r].keyFailure = 1
             /\ req[r].nExpand = 0 /\ req[r].nUpsert = 0
             /\ req[r].sessionID = << >>

C10_Witness == \E r \in Reqs : NoIssNoAud(r) /\ Len(req[r].authFailed) = 1

\* The step on which request r, whose identifier has no stored session,
\* asks the policy engine for a policy it cannot expand.
ExpansionFails(r) ==
    /\ req[r].pc = "checkSession" /\ req'[r].pc # "checkSession"
    /\ req[r].sessionID \notin DOMAIN sessions
    /\ req[r].policyID \notin KnownPolicies

\* C11: when the policy engine cannot expand the resolved policy for an
\* identifier with no stored session, the request returns 403 with exactly
\* one failure event keyed by the computed session identifier (not the
\* placeholder), UpdateSession is not called, the store is unchanged and
\* nothing is published to the request context.
C11_ExpansionFailureRefused ==
    [][\A r \in Reqs :
          ExpansionFails(r)
             => /\ req'[r].pc = "done" /\ req'[r].code = 403 /\ req'[r].err # ""
                /\ req'[r].nExpand = 1
                /\ req'[r].authFailed = <<req[r].sessionID>>
                /\ req[r].sessionID =
                      SessionID(apiSpec, req[r].sub, req[r].clientID)
                /\ req[r].sessionID # NOT_GENERATED
                /\ req'[r].keyFailure = 1
                /\ req'[r].nUpsert = 0
                /\ sessions' = sessions
                /\ req'[r].ctx = req[r].ctx
                /\ ~req'[r].ctx.hasSessionData]_vars

\* A request resolved a policy the engine does not know and was refused.
C11_Witness ==
    \E r \in Reqs :
       /\ req[r].pc = "done" /\ req[r].nExpand = 1 /\ req[r].code = 403
       /\ req[r].policyID = "pol-X"
       /\ req[r].sessionID \notin DOMAIN sessions

\* The threads positioned at a write of the map (lines 64-68) and at a
\* read of it (lines 128, 143, 149).
Writing == IF cfg.pc = "write" THEN {CfgThread} ELSE {}

Reading == {r \in Reqs : req[r].pc \in {"readIssuer", "readAud"}}

\* C12: the reads and writes of the map are mutually excluded by the lock:
\* the writer of the map holds the lock exclusively, every reader holds it
\* (exclusively at line 128, shared at lines 143 and 149), and no request
\* is at a read while getProviders is at a write, so that a lookup
\* concurrent with a reload sees an entry entirely before or entirely
\* after its write.
C12_RegistryAccessExcluded ==
    /\ lock.w # "none" => lock.r = {}
    /\ Writing # {} => lock.w = CfgThread
    /\ \A r \in Reading :
          /\ req[r].pc = "readIssuer" => lock.w = r
          /\ req[r].pc = "readAud" => r \in lock.r
    /\ Writing # {} => Reading = {}

\* During a reload (a second getProviders call) the map is being written
\* while a request waits for the lock to read the issuer's clients.
C12_Witness ==
    /\ cfg.calls >= 1 /\ Writing # {}
    /\ \E r \in Reqs : req[r].pc \in {"lockIssuer", "rlockAud"}

\* The requests for which ProcessRequest has returned.
Returned == {r \in Reqs : req[r].pc = "done"}

\* C13: every invocation that returned 403 called reportLoginFailure
\* exactly once (one AuthFailed event and one health report), every
\* invocation that returned 200 never called it, and no invocation
\* repeated the policy expansion or the upsert.
C13_OneFailureReportPer403 ==
    \A r \in Returned :
       /\ req[r].code \in {200, 403}
       /\ req[r].code = 403
             => (Len(req[r].authFailed) = 1 /\ req[r].keyFailure = 1)
       /\ req[r].code = 200
             => (Len(req[r].authFailed) = 0 /\ req[r].keyFailure = 0)
       /\ req[r].nExpand <= 1 /\ req[r].nUpsert <= 1

\* One request was refused after its policy could not be expanded and
\* another returned 200 after storing its session.
C13_Witness ==
    \E a, b \in Returned :
       /\ req[a].code = 403 /\ req[a].nExpand = 1
       /\ req[b].code = 200 /\ req[b].nUpsert = 1

\* A valid provider list: every client identifier decodes, and no
\* (issuer, decoded client) pair is configured twice.
ValidList(l) ==
    /\ \A p \in 1..Len(l) :
          \A enc \in DOMAIN l[p].ClientIDs : ~DecodeString(enc).err
    /\ \A p, q \in 1..Len(l) :
          \A e \in DOMAIN l[p].ClientIDs : \A f \in DOMAIN l[q].ClientIDs :
             (l[p].Issuer = l[q].Issuer /\ DecodeString(e).bytes = DecodeString(f).bytes)
                => (p = q /\ e = f)

\* The step on which a getProviders call returns (line 88).
CfgReturns == cfg.pc # "idle" /\ cfg'.pc = "idle"

\* C14: when getProviders returns for a valid list, every configured
\* (issuer, decoded client) pair is a key of the map and maps to its
\* configured policy, also for a provider that follows one whose
\* registration failed.
C14_ValidListInserted ==
    [][(CfgReturns /\ ValidList(cfg.list))
          => \A p \in 1..Len(cfg.list) :
                \A enc \in DOMAIN cfg.list[p].ClientIDs :
                   LET iss == cfg.list[p].Issuer
                       clientID == DecodeString(enc).bytes
                   IN  /\ iss \in DOMAIN registry'
                       /\ clientID \in DOMAIN registry'[iss]
                       /\ registry'[iss][clientID] = cfg.list[p].ClientIDs[enc]]_vars

\* A call for the valid list has returned, after an earlier call had
\* written another policy for one of its pairs: the first provider's
\* registration (with no client) failed, the second provider's clients
\* are in the map.
C14_Witness ==
    /\ cfg.pc = "idle" /\ cfg.calls = 2
    /\ IssuerTwo \in DOMAIN library
    /\ ~library[IssuerTwo].ok /\ library[IssuerTwo].clients = {}
    /\ IssuerOne \in DOMAIN registry
    /\ ClientC \in DOMAIN registry[IssuerOne]
    /\ registry[IssuerOne][ClientA] = "pol-A"
    /\ registry[IssuerOne][ClientB] = "pol-B"

\* The requests that returned (nil, 200).
Succeeded == {r \in Returned : req[r].code = 200}

\* BaseIdentityProvidedBy designates this middleware, or is unset.
Designated == apiSpec.BaseIdentityProvidedBy \in {"OIDCUser", "UnsetAuth"}

\* C15: on a successful request the session and the session identifier
\* are written to the request context if and only if the precedence
\* setting designates this middleware or is unset; otherwise the session
\* is still materialized (found, or generated and handed to UpdateSession)
\* and the context's session and auth-value entries are as they were.
C15_ContextSetIffDesignated ==
    \A r \in Succeeded :
       /\ Designated <=> req[r].ctx.hasSessionData
       /\ Designated <=> req[r].ctx.AuthHeaderValue # InitReq.ctx.AuthHeaderValue
       /\ Designated
             => /\ req[r].ctx.SessionData = req[r].sessionState
                /\ req[r].ctx.AuthHeaderValue = Str(req[r].sessionID)
       /\ ~Designated
             => /\ req[r].ctx.SessionData = InitReq.ctx.SessionData
                /\ req[r].ctx.AuthHeaderValue = InitReq.ctx.AuthHeaderValue
       /\ req[r].exists \/ req[r].nUpsert = 1
       /\ req[r].sessionState.policy = req[r].policyID \/ req[r].exists

\* Under another precedence a request generated its session, handed it to
\* UpdateSession, and returned 200 with the context's session unset.
C15_Witness ==
    \E r \in Succeeded :
       /\ ~Designated /\ req[r].nUpsert = 1 /\ req[r].upsertOK
       /\ ~req[r].ctx.hasSessionData

\* C16: whenever flattening is enabled and a request succeeds, the shared
\* context holds every claim of the token under "jwt_claims_" + its name
\* and the session identifier resolved for the request under "token",
\* whether or not a context object existed beforehand and whatever the
\* precedence setting.
C16_ClaimsAndTokenFlattened ==
    \A r \in Succeeded :
       apiSpec.EnableContextVars
          => LET data == req[r].ctx.ContextData
                 claims == Claims(req[r])
             IN  /\ \A n \in DOMAIN claims :
                       /\ ClaimKey(n) \in DOMAIN data
                       /\ data[ClaimKey(n)] = claims[n]
                 /\ "token" \in DOMAIN data
                 /\ data["token"] = Str(req[r].sessionID)

\* Thread t holds the lock, exclusively or shared.
Holds(l, t) == l.w = t \/ t \in l.r

\* C17: every acquisition of the lock is followed by its release on every
\* path, so that no request whose execution has ended, by a return or by
\* a panic, still holds the lock.
C17_LockReleasedOnEveryPath ==
    \A r \in Reqs :
       req[r].pc \in {"done", "panicked"} => ~Holds(lock, r)

\* No thread positioned at a call of an external collaborator holds the
\* lock: getProviders at openid.NewProvider (line 76), a request at the
\* authentication (106), the session lookup and the policy expansion
\* (178-185) or the upsert (202).
AtExternalCallUnlocked ==
    /\ (cfg.pc = "clients" /\ cfg.todo = {}) => ~Holds(lock, CfgThread)
    /\ \A r \in Reqs :
          req[r].pc \in {"idle", "checkSession", "update"} => ~Holds(lock, r)

\* C18: the lock is never held by the calling thread when it calls an
\* external collaborator: not at the registration of a provider, not at
\* the authentication, the session lookup, the policy expansion or the
\* upsert, and a step that reports a login failure ends with the lock
\* released by the reporting request.
C18_NoLockAcrossExternalCalls ==
    [][/\ AtExternalCallUnlocked
       /\ AtExternalCallUnlocked'
       /\ \A r \in Reqs :
             Len(req'[r].authFailed) > Len(req[r].authFailed)
                => ~Holds(lock', r)]_vars

\* A request is about to call UpdateSession while getProviders holds the
\* lock for a write.
C18_Witness ==
    /\ Holds(lock, CfgThread)
    /\ \E r \in Reqs : req[r].pc = "update" /\ req[r].foundIssuer

\* The (issuer, client) pairs that are keys of map m.
Pairs(m) == UNION {{<<iss, c>> : c \in DOMAIN m[iss]} : iss \in DOMAIN m}

\* C19: getProviders never removes an entry: every pair that is a key
\* stays a key on every step, and the value of a pair changes only by the
\* write of the configuration in progress for that pair, to the policy
\* that configuration gives it (the last write wins).
C19_EntriesNeverRemoved ==
    [][registry' # registry
          => /\ Pairs(registry) \subseteq Pairs(registry')
             /\ \A pr \in Pairs(registry') :
                   (pr \notin Pairs(registry)
                      \/ registry'[pr[1]][pr[2]] # registry[pr[1]][pr[2]])
                      => /\ cfg.pc = "write"
                         /\ pr[1] = cfg.list[cfg.p].Issuer
                         /\ pr[2] = DecodeString(cfg.cur).bytes
                         /\ registry'[pr[1]][pr[2]] =
                               cfg.list[cfg.p].ClientIDs[cfg.cur]]_vars

\* Two calls have returned, and the map has the pair the first list alone
\* configures and the pair the second list alone configures: the later
\* call omitted a client that is still a key.
C19_Witness ==
    /\ cfg.pc = "idle" /\ cfg.calls = 2
    /\ <<IssuerOne, ClientB>> \in Pairs(registry)
    /\ <<IssuerOne, ClientC>> \in Pairs(registry)

\* Without segregation, request a materialized its subject's session
\* through one client and returned before request b arrived; b, of the
\* same subject, resolved another registered client mapped to another
\* policy and has consulted the session manager.
ThroughAnotherClient(a, b) ==
    /\ ~apiSpec.SegregateByClient
    /\ a \in req[b].after
    /\ req[a].nUpsert = 1 /\ req[a].upsertOK /\ req[a].code = 200
    /\ b \in Derived /\ req[b].pc # "checkSession"
    /\ req[b].sub = req[a].sub
    /\ req[b].clientID # req[a].clientID
    /\ req[b].policyID # req[a].policyID

\* C20: with segregation off, a later request of a subject through a
\* different client mapped to a different policy returns 200 with the
\* session stored by the first request (its policy, ClientID metadata and
\* alias those of the first client); the policy engine and UpdateSession
\* are not called for it and the stored session is as the first left it.
C20_SubjectSessionShared ==
    \A a, b \in Reqs :
       ThroughAnotherClient(a, b)
          => /\ req[b].pc = "done" /\ req[b].code = 200 /\ req[b].err = ""
             /\ req[b].nExpand = 0 /\ req[b].nUpsert = 0
             /\ req[b].sessionState = req[a].sessionState
             /\ req[b].sessionState.policy = req[a].policyID
             /\ req[b].sessionState.MetaData.ClientID = req[a].clientID
             /\ req[b].sessionState.Alias = req[a].clientID \o Colon \o req[a].sub
             /\ req[b].sessionID \in DOMAIN sessions
             /\ sessions[req[b].sessionID] = req[a].sessionState

\* The second request came through a client whose policy the engine
\* could have expanded.
C20_Witness ==
    \E a, b \in Reqs :
       /\ ThroughAnotherClient(a, b)
       /\ req[b].pc = "done"
       /\ req[a].policyID = "pol-A" /\ req[b].policyID = "pol-B"

====
